---- MODULE Spec2Model ----
(***************************************************************************)
(* kcov-rs: a handle on the kernel's coverage device (src/src/lib.rs).     *)
(*                                                                         *)
(* open() opens the device, negotiates the buffer capacity and maps the    *)
(* shared buffer; collect(call) resets the count word, enables tracing     *)
(* through a Guard, runs call(), builds the view with covers() and then    *)
(* drops the Guard (disable); dropping the CovHandle unmaps and closes.    *)
(* Every fallible step ends the process through exits!(exitcode::OSERR).   *)
(*                                                                         *)
(* Memory is modelled in bytes: pointers are byte addresses, the mapped    *)
(* region is a sequence of words, words are little-endian.                 *)
(***************************************************************************)
EXTENDS Integers, Sequences, FiniteSets, TLC

\* ------------------------------------------------------------------ sizes
\* mem::size_of::<usize>() on a 64-bit target
WordSize == 8
\* size_of::<c_void>(): the stride of NonNull<c_void>::add
VoidSize == 1
\* exitcode::OSERR
OSERR == 71
\* the granularity of the addresses mmap(None, ..) returns
PageSize == 4096

\* words of the shared buffer (the source has 1024 * 1024 of them)
BufWords == 3
\* the kernel places the mapping at one of MaxPages page addresses
MaxPages == 2
\* program-counter values the kernel records are 1..MaxPC
MaxPC == 2
\* collect() calls made on one handle
MaxCollects == 2

KCOV_BUF_LEN == BufWords * WordSize

None == [none |-> TRUE]
PCs == 1..MaxPC
MemAddrs == {k * PageSize : k \in 1..MaxPages}

VARIABLES
    pc,            \* position of the calling thread
    fdState,       \* what the descriptor number in CovHandle.fd refers to
    mapState,      \* "none" | "mapped" | "unmapped"
    h,             \* the CovHandle {fd, pcs, len, mem}, None before open() returns
    buf,           \* the words of the mapped region, buf[1] is word 0
    tracing,       \* the kernel records coverage for this thread
    view,          \* the slice covers() built, while the Guard is alive
    result,        \* the slice collect() returned to the caller
    exitCode,      \* the status passed to process::exit, -1 while running
    failedAt,      \* the step whose failure ended the process
    collects,      \* collect() calls started
    callEnables,   \* KCOV_ENABLE requests of the current collect call
    callDisables,  \* KCOV_DISABLE requests of the current collect call
    callWorks,     \* executions of call() in the current collect call
    closeCalls,    \* close() calls made on the descriptor number
    unmapCalls,    \* munmap() calls made on the region
    badFdUse,      \* requests issued on the number after its first close
    countAtCovers, \* word 0 when covers() ran
    countAtDisable,\* word 0 when the Guard was dropped
    recorded,      \* the addresses the kernel recorded during this call()
    panicked,      \* call() left collect by unwinding
    openLog,       \* the requests open() has issued, in order
    initOk,        \* the KCOV_INIT_TRACE request succeeded
    initArg,       \* the capacity passed to KCOV_INIT_TRACE, -1 before
    mapLen,        \* the byte length passed to mmap, -1 before
    unmapLen,      \* the byte length passed to munmap, -1 before
    totalEnables,  \* KCOV_ENABLE requests over the life of the handle
    totalDisables  \* KCOV_DISABLE requests over the life of the handle

vars == <<pc, fdState, mapState, h, buf, tracing, view, result, exitCode,
          failedAt, collects, callEnables, callDisables, callWorks,
          closeCalls, unmapCalls, badFdUse, countAtCovers, countAtDisable,
          recorded, panicked, openLog, initOk, initArg, mapLen, unmapLen,
          totalEnables, totalDisables>>

\* ------------------------------------------------------------ pure helpers
\* byte b of the little-endian encoding of v
RECURSIVE Byte(_, _)
Byte(v, b) == IF b = 0 THEN v % 256 ELSE Byte(v \div 256, b - 1)

\* the bytes of a usize
WordBytes(v) == [b \in 0..(WordSize - 1) |-> Byte(v, b)]

\* the byte at offset off of the mapped region
RegionByte(m, off) == Byte(m[(off \div WordSize) + 1], off % WordSize)

\* a usize read at byte address addr (the region starts at base)
ReadUsize(m, base, addr) ==
    [b \in 0..(WordSize - 1) |-> RegionByte(m, (addr - base) + b)]

\* element i of a slice, as from_raw_parts lays it out
SliceElem(m, base, s, i) == ReadUsize(m, base, s.ptr + i * WordSize)

\* element i lies inside the mapped region
InRegion(base, s, i) ==
    /\ s.ptr + i * WordSize >= base
    /\ s.ptr + (i + 1) * WordSize <= base + KCOV_BUF_LEN

\* the kernel's write of one covered address: word 0 counts, and the
\* address is dropped when the buffer is full
KernelHit(m, addr) ==
    LET pos == m[1] + 1
    IN  IF pos < BufWords THEN [m EXCEPT ![pos + 1] = addr, ![1] = pos] ELSE m

RECURSIVE KernelHits(_, _)
KernelHits(m, hits) ==
    IF hits = <<>> THEN m ELSE KernelHits(KernelHit(m, Head(hits)), Tail(hits))

\* sequences over S of length at most n
RECURSIVE SeqsUpTo(_, _)
SeqsUpTo(S, n) ==
    IF n = 0 THEN {<<>>}
    ELSE LET shorter == SeqsUpTo(S, n - 1)
         IN  shorter \cup {Append(s, x) : s \in {t \in shorter : Len(t) = n - 1}, x \in S}

\* the outcomes of a request on the descriptor number: EBADF once it is closed
Outcomes(fds) == IF fds = "closed" THEN {FALSE} ELSE {TRUE, FALSE}

\* exits!(exitcode::OSERR, ..)
exits(step) ==
    /\ pc' = "exited"
    /\ exitCode' = OSERR
    /\ failedAt' = step

\* ----------------------------------------------------------------- state
Init ==
    /\ pc = "start"
    /\ fdState = "none"
    /\ mapState = "none"
    /\ h = None
    /\ buf = [i \in 1..BufWords |-> 0]
    /\ tracing = FALSE
    /\ view = None
    /\ result = None
    /\ exitCode = -1
    /\ failedAt = "none"
    /\ collects = 0
    /\ callEnables = 0
    /\ callDisables = 0
    /\ callWorks = 0
    /\ closeCalls = 0
    /\ unmapCalls = 0
    /\ badFdUse = 0
    /\ countAtCovers = 0
    /\ countAtDisable = 0
    /\ recorded = <<>>
    /\ panicked = FALSE
    /\ openLog = <<>>
    /\ initOk = FALSE
    /\ initArg = -1
    /\ mapLen = -1
    /\ unmapLen = -1
    /\ totalEnables = 0
    /\ totalDisables = 0

\* ------------------------------------------------------------------ open()
\* OpenDevice going straight on to the mapping: the init request is left out
OpenDevice_noinit ==
    /\ pc = "start"
    /\ \E ok \in {TRUE, FALSE} :
        IF ok
        THEN /\ pc' = "inited"
             /\ fdState' = "kcov"
             /\ UNCHANGED <<exitCode, failedAt>>
        ELSE /\ exits("open")
             /\ UNCHANGED fdState
    /\ openLog' = Append(openLog, "open")
    /\ UNCHANGED <<mapState, h, buf, tracing, view, result, collects,
                   callEnables, callDisables, callWorks, closeCalls,
                   unmapCalls, badFdUse, countAtCovers, countAtDisable,
                   recorded, panicked, initOk, initArg, mapLen, unmapLen,
                   totalEnables, totalDisables>>

\* fcntl::open(KCOV, O_RDWR, ..)
OpenDevice ==
    /\ pc = "start"
    /\ \E ok \in {TRUE, FALSE} :
        IF ok
        THEN /\ pc' = "dev_open"
             /\ fdState' = "kcov"
             /\ UNCHANGED <<exitCode, failedAt>>
        ELSE /\ exits("open")
             /\ UNCHANGED fdState
    /\ UNCHANGED <<mapState, h, buf, tracing, view, result, collects,
                   callEnables, callDisables, callWorks, closeCalls,
                   unmapCalls, badFdUse, countAtCovers, countAtDisable,
                   recorded, panicked>>
    /\ openLog' = Append(openLog, "open")
    /\ UNCHANGED <<initOk, initArg, mapLen, unmapLen, totalEnables, totalDisables>>

\* InitTrace with the byte size passed as the capacity
InitTrace_bytes ==
    /\ pc = "dev_open"
    /\ \E ok \in Outcomes(fdState) :
        IF ok
        THEN /\ pc' = "inited"
             /\ initOk' = TRUE
             /\ UNCHANGED <<exitCode, failedAt>>
        ELSE /\ exits("init")
             /\ UNCHANGED initOk
    /\ openLog' = Append(openLog, "init")
    /\ initArg' = KCOV_BUF_LEN
    /\ UNCHANGED <<fdState, mapState, h, buf, tracing, view, result, collects,
                   callEnables, callDisables, callWorks, closeCalls,
                   unmapCalls, badFdUse, countAtCovers, countAtDisable,
                   recorded, panicked, mapLen, unmapLen, totalEnables,
                   totalDisables>>

\* kcov_init(fd, KCOV_BUF_LEN / size_of::<usize>())
InitTrace ==
    /\ pc = "dev_open"
    /\ \E ok \in Outcomes(fdState) :
        IF ok
        THEN /\ pc' = "inited"
             /\ initOk' = TRUE
             /\ UNCHANGED <<exitCode, failedAt>>
        ELSE /\ exits("init")
             /\ UNCHANGED initOk
    /\ UNCHANGED <<fdState, mapState, h, buf, tracing, view, result, collects,
                   callEnables, callDisables, callWorks, closeCalls,
                   unmapCalls, badFdUse, countAtCovers, countAtDisable,
                   recorded, panicked>>
    /\ openLog' = Append(openLog, "init")
    /\ initArg' = KCOV_BUF_LEN \div WordSize
    /\ UNCHANGED <<mapLen, unmapLen, totalEnables, totalDisables>>

\* mman::mmap(None, KCOV_BUF_LEN, .., OwnedFd::from_raw_fd(fd), 0): mmap takes
\* the OwnedFd by value and drops it on return, which closes the descriptor;
\* then len = mem, pcs = mem.add(1) on a NonNull<c_void>
Mmap ==
    /\ pc = "inited"
    /\ fdState' = "closed"
    /\ closeCalls' = closeCalls + 1
    /\ \E ok \in {TRUE, FALSE}, addr \in MemAddrs :
        IF ok
        THEN /\ pc' = "idle"
             /\ mapState' = "mapped"
             /\ h' = [fd |-> "fd", mem |-> addr, len |-> addr,
                      pcs |-> addr + 1 * VoidSize]
             /\ UNCHANGED <<exitCode, failedAt>>
        ELSE /\ exits("mmap")
             /\ UNCHANGED <<mapState, h>>
    /\ UNCHANGED <<buf, tracing, view, result, collects, callEnables,
                   callDisables, callWorks, unmapCalls, badFdUse,
                   countAtCovers, countAtDisable, recorded, panicked>>
    /\ openLog' = Append(openLog, "mmap")
    /\ mapLen' = KCOV_BUF_LEN
    /\ UNCHANGED <<initOk, initArg, unmapLen, totalEnables, totalDisables>>

\* --------------------------------------------------------------- collect()
\* a usize store through a pointer into the region
WriteUsize(m, base, addr, v) == [m EXCEPT ![((addr - base) \div WordSize) + 1] = v]

\* Clear without the store: the count of the previous call stays
Clear_stale ==
    /\ pc = "idle"
    /\ collects < MaxCollects
    /\ pc' = "cleared"
    /\ collects' = collects + 1
    /\ result' = None
    /\ view' = None
    /\ callEnables' = 0
    /\ callDisables' = 0
    /\ callWorks' = 0
    /\ recorded' = <<>>
    /\ panicked' = FALSE
    /\ UNCHANGED <<fdState, mapState, h, buf, tracing, exitCode, failedAt,
                   closeCalls, unmapCalls, badFdUse, countAtCovers,
                   countAtDisable>>
    /\ UNCHANGED <<openLog, initOk, initArg, mapLen, unmapLen, totalEnables, totalDisables>>

\* CovHandle::clear: *(self.len as *mut usize) = 0, the first step of collect
Clear ==
    /\ pc = "idle"
    /\ collects < MaxCollects
    /\ pc' = "cleared"
    /\ collects' = collects + 1
    /\ buf' = WriteUsize(buf, h.mem, h.len, 0)
    /\ result' = None
    /\ view' = None
    /\ callEnables' = 0
    /\ callDisables' = 0
    /\ callWorks' = 0
    /\ recorded' = <<>>
    /\ panicked' = FALSE
    /\ UNCHANGED <<fdState, mapState, h, tracing, exitCode, failedAt,
                   closeCalls, unmapCalls, badFdUse, countAtCovers,
                   countAtDisable>>
    /\ UNCHANGED <<openLog, initOk, initArg, mapLen, unmapLen, totalEnables, totalDisables>>

\* a request on self.fd counts as a use after close when the number no
\* longer refers to the device opened in open()
UseOf(fds) == IF fds = "kcov" THEN 0 ELSE 1

\* Enable handing out the Guard without issuing the request
Enable_lazy ==
    /\ pc = "cleared"
    /\ pc' = "enabled"
    /\ UNCHANGED <<fdState, mapState, h, buf, tracing, view, result, exitCode,
                   failedAt, collects, callEnables, callDisables, callWorks,
                   closeCalls, unmapCalls, badFdUse, countAtCovers,
                   countAtDisable, recorded, panicked, openLog, initOk,
                   initArg, mapLen, unmapLen, totalEnables, totalDisables>>

\* Enable with a panic in place of exits!: the failure unwinds into the
\* caller, where the handle is dropped
Enable_unwinds ==
    /\ pc = "cleared"
    /\ callEnables' = callEnables + 1
    /\ totalEnables' = totalEnables + 1
    /\ badFdUse' = badFdUse + UseOf(fdState)
    /\ \E ok \in Outcomes(fdState) :
        IF ok
        THEN /\ pc' = "enabled"
             /\ tracing' = TRUE
             /\ UNCHANGED failedAt
        ELSE /\ pc' = "unwound"
             /\ failedAt' = "enable"
             /\ UNCHANGED tracing
    /\ UNCHANGED <<fdState, mapState, h, buf, view, result, exitCode,
                   collects, callDisables, callWorks, closeCalls, unmapCalls,
                   countAtCovers, countAtDisable, recorded, panicked, openLog,
                   initOk, initArg, mapLen, unmapLen, totalDisables>>

\* Enable with the failure handed back instead of ending the process
Enable_recoverable ==
    /\ pc = "cleared"
    /\ callEnables' = callEnables + 1
    /\ badFdUse' = badFdUse + UseOf(fdState)
    /\ \E ok \in Outcomes(fdState) :
        /\ pc' = "enabled"
        /\ tracing' = (tracing \/ ok)
        /\ failedAt' = IF ok THEN failedAt ELSE "enable"
        /\ UNCHANGED exitCode
    /\ UNCHANGED <<fdState, mapState, h, buf, view, result, collects,
                   callDisables, callWorks, closeCalls, unmapCalls,
                   countAtCovers, countAtDisable, recorded, panicked>>
    /\ totalEnables' = totalEnables + 1
    /\ UNCHANGED <<openLog, initOk, initArg, mapLen, unmapLen, totalDisables>>

\* CovHandle::enable: kcov_enable(self.fd), then Guard { inner: self }
Enable ==
    /\ pc = "cleared"
    /\ callEnables' = callEnables + 1
    /\ badFdUse' = badFdUse + UseOf(fdState)
    /\ \E ok \in Outcomes(fdState) :
        IF ok
        THEN /\ pc' = "enabled"
             /\ tracing' = TRUE
             /\ UNCHANGED <<exitCode, failedAt>>
        ELSE /\ exits("enable")
             /\ UNCHANGED tracing
    /\ UNCHANGED <<fdState, mapState, h, buf, view, result, collects,
                   callDisables, callWorks, closeCalls, unmapCalls,
                   countAtCovers, countAtDisable, recorded, panicked>>
    /\ totalEnables' = totalEnables + 1
    /\ UNCHANGED <<openLog, initOk, initArg, mapLen, unmapLen, totalDisables>>

\* Call whose work starts another collect on the same handle: the count is
\* reset and a second enable request is issued while the first is in flight
Call_nested ==
    /\ pc = "enabled"
    /\ callWorks' = callWorks + 1
    /\ totalEnables' = totalEnables + 1
    /\ \E hits \in SeqsUpTo(PCs, BufWords), p \in {TRUE, FALSE} :
        /\ buf' = WriteUsize(IF tracing THEN KernelHits(buf, hits) ELSE buf,
                             h.mem, h.len, 0)
        /\ recorded' = <<>>
        /\ panicked' = p
        /\ pc' = IF p THEN "unwinding" ELSE "called"
    /\ UNCHANGED <<fdState, mapState, h, tracing, view, result, exitCode,
                   failedAt, collects, callEnables, callDisables, closeCalls,
                   unmapCalls, badFdUse, countAtCovers, countAtDisable,
                   openLog, initOk, initArg, mapLen, unmapLen, totalDisables>>

\* Call with the disable as a statement after call() instead of a Guard:
\* a panic leaves collect without passing through it
Call_unguarded ==
    /\ pc = "enabled"
    /\ callWorks' = callWorks + 1
    /\ \E hits \in SeqsUpTo(PCs, BufWords), p \in {TRUE, FALSE} :
        /\ buf' = IF tracing THEN KernelHits(buf, hits) ELSE buf
        /\ recorded' = recorded \o SubSeq(hits, 1, buf'[1] - buf[1])
        /\ panicked' = p
        /\ pc' = IF p THEN "unwound" ELSE "called"
    /\ UNCHANGED <<fdState, mapState, h, tracing, view, result, exitCode,
                   failedAt, collects, callEnables, callDisables, closeCalls,
                   unmapCalls, badFdUse, countAtCovers, countAtDisable>>
    /\ UNCHANGED <<openLog, initOk, initArg, mapLen, unmapLen, totalEnables, totalDisables>>

\* call(): the caller's work runs once; while tracing is on the kernel
\* appends the addresses it covers; the work may panic
Call ==
    /\ pc = "enabled"
    /\ callWorks' = callWorks + 1
    /\ \E hits \in SeqsUpTo(PCs, BufWords), p \in {TRUE, FALSE} :
        /\ buf' = IF tracing THEN KernelHits(buf, hits) ELSE buf
        /\ recorded' = recorded \o SubSeq(hits, 1, buf'[1] - buf[1])
        /\ panicked' = p
        /\ pc' = IF p THEN "unwinding" ELSE "called"
    /\ UNCHANGED <<fdState, mapState, h, tracing, view, result, exitCode,
                   failedAt, collects, callEnables, callDisables, closeCalls,
                   unmapCalls, badFdUse, countAtCovers, countAtDisable>>
    /\ UNCHANGED <<openLog, initOk, initArg, mapLen, unmapLen, totalEnables, totalDisables>>

\* CovHandle::covers: slice::from_raw_parts(self.pcs as _, self.len.as_ptr() as _),
\* the length is the pointer self.len cast to usize
covers(hd) == [ptr |-> hd.pcs, len |-> hd.len]

\* the tail expression self.covers() of collect, evaluated while _g is alive
Covers ==
    /\ pc = "called"
    /\ pc' = "covered"
    /\ view' = covers(h)
    /\ countAtCovers' = buf[1]
    /\ UNCHANGED <<fdState, mapState, h, buf, tracing, result, exitCode,
                   failedAt, collects, callEnables, callDisables, callWorks,
                   closeCalls, unmapCalls, badFdUse, countAtDisable, recorded,
                   panicked>>
    /\ UNCHANGED <<openLog, initOk, initArg, mapLen, unmapLen, totalEnables, totalDisables>>

\* GuardDrop with the Guard forgotten: no disable request is issued
GuardDrop_leak ==
    /\ pc \in {"covered", "unwinding"}
    /\ IF pc = "covered"
       THEN /\ pc' = "idle"
            /\ result' = view
       ELSE /\ pc' = "unwound"
            /\ UNCHANGED result
    /\ view' = None
    /\ UNCHANGED <<fdState, mapState, h, buf, tracing, exitCode, failedAt,
                   collects, callEnables, callDisables, callWorks, closeCalls,
                   unmapCalls, badFdUse, countAtCovers, countAtDisable,
                   recorded, panicked>>
    /\ UNCHANGED <<openLog, initOk, initArg, mapLen, unmapLen, totalEnables, totalDisables>>

\* Guard::drop: kcov_disable(self.inner.fd), at the end of collect's scope
\* or while a panic of call() unwinds through it; the request itself runs
\* in the kernel with tracing still on and may be recorded
GuardDrop ==
    /\ pc \in {"covered", "unwinding"}
    /\ callDisables' = callDisables + 1
    /\ badFdUse' = badFdUse + UseOf(fdState)
    /\ \E ok \in Outcomes(fdState), hits \in SeqsUpTo(PCs, 1) :
        /\ buf' = IF tracing THEN KernelHits(buf, hits) ELSE buf
        /\ recorded' = recorded \o SubSeq(hits, 1, buf'[1] - buf[1])
        /\ countAtDisable' = buf'[1]
        /\ IF ok
           THEN /\ tracing' = FALSE
                /\ IF pc = "covered"
                   THEN /\ pc' = "idle"
                        /\ result' = view
                   ELSE /\ pc' = "unwound"
                        /\ UNCHANGED result
                /\ view' = None
                /\ UNCHANGED <<exitCode, failedAt>>
           ELSE /\ exits("disable")
                /\ UNCHANGED <<tracing, view, result>>
    /\ UNCHANGED <<fdState, mapState, h, collects, callEnables, callWorks,
                   closeCalls, unmapCalls, countAtCovers, panicked>>
    /\ totalDisables' = totalDisables + 1
    /\ UNCHANGED <<openLog, initOk, initArg, mapLen, unmapLen, totalEnables>>

\* ------------------------------------------------------- Drop for CovHandle
\* DropMunmap reporting the failure and going on to the close
DropMunmap_continue ==
    /\ pc \in {"idle", "unwound"}
    /\ unmapCalls' = unmapCalls + 1
    /\ unmapLen' = KCOV_BUF_LEN
    /\ result' = None
    /\ pc' = "unmapped"
    /\ \E ok \in {TRUE, FALSE} :
        IF ok
        THEN /\ mapState' = "unmapped"
             /\ UNCHANGED failedAt
        ELSE /\ failedAt' = "munmap"
             /\ UNCHANGED mapState
    /\ UNCHANGED <<fdState, h, buf, tracing, view, exitCode, collects,
                   callEnables, callDisables, callWorks, closeCalls, badFdUse,
                   countAtCovers, countAtDisable, recorded, panicked, openLog,
                   initOk, initArg, mapLen, totalEnables, totalDisables>>

\* mman::munmap(self.mem, KCOV_BUF_LEN)
DropMunmap ==
    /\ pc \in {"idle", "unwound"}
    /\ unmapCalls' = unmapCalls + 1
    /\ result' = None
    /\ \E ok \in {TRUE, FALSE} :
        IF ok
        THEN /\ pc' = "unmapped"
             /\ mapState' = "unmapped"
             /\ UNCHANGED <<exitCode, failedAt>>
        ELSE /\ exits("munmap")
             /\ UNCHANGED mapState
    /\ UNCHANGED <<fdState, h, buf, tracing, view, collects, callEnables,
                   callDisables, callWorks, closeCalls, badFdUse,
                   countAtCovers, countAtDisable, recorded, panicked>>
    /\ unmapLen' = KCOV_BUF_LEN
    /\ UNCHANGED <<openLog, initOk, initArg, mapLen, totalEnables, totalDisables>>

\* unistd::close(self.fd)
DropClose ==
    /\ pc = "unmapped"
    /\ closeCalls' = closeCalls + 1
    /\ badFdUse' = badFdUse + UseOf(fdState)
    /\ \E ok \in Outcomes(fdState) :
        IF ok
        THEN /\ pc' = "dropped"
             /\ fdState' = "closed"
             /\ UNCHANGED <<exitCode, failedAt>>
        ELSE /\ exits("close")
             /\ UNCHANGED fdState
    /\ UNCHANGED <<mapState, h, buf, tracing, view, result, collects,
                   callEnables, callDisables, callWorks, unmapCalls,
                   countAtCovers, countAtDisable, recorded, panicked>>
    /\ UNCHANGED <<openLog, initOk, initArg, mapLen, unmapLen, totalEnables, totalDisables>>

\* ------------------------------------------------------------- the caller
\* between two calls into the library the caller opens a file, which gets
\* the lowest free descriptor number: the one open() left closed
CallerOpens ==
    /\ pc = "idle"
    /\ fdState = "closed"
    /\ fdState' = "other"
    /\ UNCHANGED <<pc, mapState, h, buf, tracing, view, result, exitCode,
                   failedAt, collects, callEnables, callDisables, callWorks,
                   closeCalls, unmapCalls, badFdUse, countAtCovers,
                   countAtDisable, recorded, panicked>>
    /\ UNCHANGED <<openLog, initOk, initArg, mapLen, unmapLen, totalEnables, totalDisables>>

\* the caller closes that file again
CallerCloses ==
    /\ pc = "idle"
    /\ fdState = "other"
    /\ fdState' = "closed"
    /\ UNCHANGED <<pc, mapState, h, buf, tracing, view, result, exitCode,
                   failedAt, collects, callEnables, callDisables, callWorks,
                   closeCalls, unmapCalls, badFdUse, countAtCovers,
                   countAtDisable, recorded, panicked>>
    /\ UNCHANGED <<openLog, initOk, initArg, mapLen, unmapLen, totalEnables, totalDisables>>

\* the caller catches the panic that unwound out of collect and goes on
CatchUnwind ==
    /\ pc = "unwound"
    /\ pc' = "idle"
    /\ UNCHANGED <<fdState, mapState, h, buf, tracing, view, result, exitCode,
                   failedAt, collects, callEnables, callDisables, callWorks,
                   closeCalls, unmapCalls, badFdUse, countAtCovers,
                   countAtDisable, recorded, panicked>>
    /\ UNCHANGED <<openLog, initOk, initArg, mapLen, unmapLen, totalEnables, totalDisables>>

Next ==
    \/ OpenDevice
    \/ InitTrace
    \/ Mmap
    \/ Clear
    \/ Enable
    \/ Call
    \/ Covers
    \/ GuardDrop
    \/ DropMunmap
    \/ DropClose
    \/ CallerOpens
    \/ CallerCloses
    \/ CatchUnwind

Spec == Init /\ [][Next]_vars

TypeOK ==
    /\ pc \in {"start", "dev_open", "inited", "idle", "cleared", "enabled",
               "called", "covered", "unwinding", "unwound", "unmapped",
               "dropped", "exited"}
    /\ fdState \in {"none", "kcov", "closed", "other"}
    /\ mapState \in {"none", "mapped", "unmapped"}
    /\ buf \in [1..BufWords -> 0..MaxPC \cup 0..BufWords]
    /\ tracing \in BOOLEAN
    /\ exitCode \in {-1, OSERR}
    /\ collects \in 0..MaxCollects

\* ------------------------------------------------------------------ claims
\* control is back in the caller after a collect call that returned a view
Returned ==
    /\ collects > 0
    /\ ~panicked
    /\ \/ pc \in {"idle", "unmapped", "dropped"}
       \/ pc = "exited" /\ failedAt \in {"munmap", "close"}

\* control is back in the caller after a collect call that unwound
Unwound ==
    /\ collects > 0
    /\ panicked
    /\ \/ pc \in {"unwound", "idle", "unmapped", "dropped"}
       \/ pc = "exited" /\ failedAt \in {"munmap", "close"}

\* C1: the view collect returns has exactly n elements, n the value of word 0
\* when the view was built, and they are the first n words after word 0.
C1_ViewIsFirstN ==
    result # None =>
        /\ result.len = countAtCovers
        /\ \A i \in 0..(countAtCovers - 1) :
            /\ InRegion(h.mem, result, i)
            /\ SliceElem(buf, h.mem, result, i) = WordBytes(buf[i + 2])

\* C2: when the kernel wrote nothing into the buffer during the call, the
\* returned view is empty.
C2_EmptyWhenNoActivity ==
    (result # None /\ recorded = <<>>) => result.len = 0

\* C3: the length of the returned view never exceeds the negotiated capacity
\* (KCOV_BUF_LEN / word size) minus one word.
C3_ViewWithinCapacity ==
    result # None => result.len <= (KCOV_BUF_LEN \div WordSize) - 1

\* C4: once a collect call has returned, tracing is off, and the call issued
\* exactly one enable request and exactly one disable request.
C4_TracingOffAfterReturn ==
    Returned => (~tracing /\ callEnables = 1 /\ callDisables = 1)

C4_Witness ==
    /\ pc = "idle"
    /\ collects = 2
    /\ result # None
    /\ ~tracing
    /\ callDisables = 1

\* C5: when call() leaves collect by unwinding, the disable request has been
\* issued exactly once before the unwind leaves collect, and tracing is off.
C5_DisableOnUnwind ==
    Unwound => (~tracing /\ callDisables = 1)

C5_Witness ==
    /\ pc = "unwound"
    /\ panicked
    /\ callWorks = 1
    /\ callDisables = 1
    /\ ~tracing

\* C6: after the reset step of a collect call word 0 is 0, and neither the
\* enable request nor call() has happened yet in that call.
C6_ResetBeforeEnable ==
    pc = "cleared" => (buf[1] = 0 /\ callEnables = 0 /\ callWorks = 0)

C6_Witness ==
    /\ pc = "cleared"
    /\ collects = 2
    /\ countAtDisable > 0
    /\ buf[2] # 0
    /\ buf[1] = 0

\* C7: over the life of a handle the descriptor is closed at most once and
\* the region is unmapped at most once.
C7_ReleasedAtMostOnce ==
    closeCalls <= 1 /\ unmapCalls <= 1

\* C8: every enable, disable and teardown close is issued on a descriptor
\* that has not been closed yet.
C8_FdOpenUntilTeardown ==
    badFdUse = 0

\* C9: the view returned by a second collect call holds only addresses the
\* kernel recorded during that call.
C9_IndependentViews ==
    (result # None /\ collects >= 2) =>
        \A i \in 0..(result.len - 1) :
            /\ InRegion(h.mem, result, i)
            /\ \E j \in 1..Len(recorded) :
                SliceElem(buf, h.mem, result, i) = WordBytes(recorded[j])

\* C10: each failure ends the process with status OSERR and nothing of the
\* failed operation runs afterwards: no mapping after a failed init, no
\* call() after a failed enable, no view returned after a failed disable.
C10_FailureIsFatal ==
    /\ (failedAt # "none") <=> (pc = "exited")
    /\ (pc = "exited") <=> (exitCode = OSERR)
    /\ failedAt = "open" => fdState = "none"
    /\ failedAt = "init" => (mapState = "none" /\ closeCalls = 0)
    /\ failedAt = "mmap" => h = None
    /\ failedAt = "enable" => (callWorks = 0 /\ view = None)
    /\ failedAt = "disable" => result = None
    /\ failedAt = "munmap" => (mapState = "mapped" /\ closeCalls = 1)
    /\ failedAt = "close" => pc # "dropped"

C10_Witness ==
    /\ failedAt = "disable"
    /\ exitCode = OSERR
    /\ view # None
    /\ result = None

\* C11: the disable request is issued before the count is read for the view:
\* tracing is off when the view is built, and the count cannot change
\* between that read and the return.
C11_DisableBeforeCountRead ==
    /\ pc = "covered" => (callDisables = 1 /\ ~tracing)
    /\ result # None => countAtDisable = countAtCovers

\* C12: in teardown the close of the descriptor is attempted even when the
\* unmap has failed.
C12_CloseAttemptedAfterFailedUnmap ==
    failedAt = "munmap" => closeCalls > 1

\* C12 as amended: teardown unmaps first; a failed unmap ends the process
\* with OSERR without the close being attempted, and the close is attempted
\* only after a successful unmap.
C12_CloseOnlyAfterUnmap ==
    /\ failedAt = "munmap" =>
        (pc = "exited" /\ exitCode = OSERR /\ unmapCalls = 1 /\ closeCalls = 1)
    /\ closeCalls > 1 => (unmapCalls = 1 /\ mapState = "unmapped")

C12_Witness ==
    /\ failedAt = "munmap"
    /\ pc = "exited"
    /\ unmapCalls = 1
    /\ mapState = "mapped"

\* C13: the entries start exactly one machine word after the start of the
\* mapped region: the count is word 0, entry i is word i + 1, word-aligned.
C13_EntriesOneWordAfterCount ==
    h # None =>
        /\ h.len = h.mem
        /\ h.pcs = h.mem + WordSize
        /\ (h.pcs - h.mem) % WordSize = 0

\* C14: open() issues device open, init, mmap in that order; the mapping is
\* requested only after the init request has succeeded, and no enable
\* request is issued before initialization.
C14_OpenInitMapOrder ==
    /\ \E n \in 0..3 : openLog = SubSeq(<<"open", "init", "mmap">>, 1, n)
    /\ mapLen # -1 => initOk
    /\ totalEnables > 0 => (initOk /\ mapState # "none")

C14_Witness ==
    /\ openLog = <<"open", "init", "mmap">>
    /\ initOk
    /\ totalEnables = 1
    /\ pc = "enabled"

\* C15: each collect call runs call() exactly once, after its enable request
\* has succeeded and before its disable request; never with tracing off and
\* never a second time.
C15_WorkOnceWhileEnabled ==
    /\ [](callWorks <= 1 /\ (Returned => callWorks = 1))
    /\ [][callWorks' > callWorks =>
            /\ callWorks = 0
            /\ callWorks' = 1
            /\ tracing
            /\ callEnables = 1
            /\ callDisables = 0]_vars

C15_Witness ==
    /\ pc = "called"
    /\ callWorks = 1
    /\ tracing
    /\ callDisables = 0
    /\ collects = 2

\* C16: enable and disable requests alternate over the life of the handle,
\* starting with enable; enable is never issued while tracing is on and the
\* count is never reset while a collection is in progress.
C16_OneCollectionInFlight ==
    /\ [](/\ totalDisables <= totalEnables
          /\ totalEnables <= totalDisables + 1
          /\ (tracing /\ pc # "exited") => totalEnables = totalDisables + 1)
    /\ [][/\ totalEnables' > totalEnables =>
                (~tracing /\ totalEnables = totalDisables)
          /\ totalDisables' > totalDisables =>
                totalEnables = totalDisables + 1
          /\ (pc' = "cleared" \/ (buf'[1] = 0 /\ buf[1] # 0)) =>
                (~tracing /\ totalEnables = totalDisables)]_vars

C16_Witness ==
    /\ totalEnables = 2
    /\ totalDisables = 1
    /\ tracing
    /\ pc = "called"
    /\ buf[1] > 0

\* C17: the init request carries the buffer size in words (bytes divided by
\* the word size), the region is mapped with the byte size, and teardown
\* unmaps that same byte size.
C17_SizesConsistent ==
    /\ initArg # -1 => (initArg * WordSize = KCOV_BUF_LEN /\ initArg = BufWords)
    /\ mapLen # -1 => (mapLen = KCOV_BUF_LEN /\ mapLen = initArg * WordSize)
    /\ unmapLen # -1 => unmapLen = mapLen

C17_Witness ==
    /\ pc = "unmapped"
    /\ initArg = BufWords
    /\ mapLen = KCOV_BUF_LEN
    /\ unmapLen = KCOV_BUF_LEN

\* C18: when the enable or the disable request fails inside collect, the
\* process ends without teardown: no unmap and no close of the handle is
\* issued, and after a failed enable no disable is issued.
C18_NoTeardownAfterFatalCollect ==
    /\ failedAt \in {"enable", "disable"} =>
        (unmapCalls = 0 /\ unmapLen = -1 /\ closeCalls = 1 /\ mapState = "mapped")
    /\ failedAt = "enable" => (callDisables = 0 /\ callWorks = 0)

C18_Witness ==
    /\ failedAt = "enable"
    /\ pc = "exited"
    /\ collects = 2
    /\ unmapCalls = 0
    /\ totalDisables = 1

====
